---------------------------- MODULE Spec2Model ----------------------------
(***************************************************************************)
(* Model of src/scrape.py (UdemyScraper and main).                         *)
(*                                                                         *)
(* One process (main) runs at a time; when it has exited a new one may be  *)
(* started, and the files it left on disk are what the next one finds.     *)
(* Disk: cookies_file, course_urls_cache, ignored_courses_file,            *)
(* courses_xlsx_file, cache_files (one raw page per course reference).     *)
(* The browser session, the remote site and the parsers are the            *)
(* environment: each call of them either returns or raises, chosen         *)
(* nondeterministically.  File reads and writes are assumed not to fail.   *)
(***************************************************************************)
EXTENDS Integers, Sequences, FiniteSets, TLC

\* ------------------------------------------------------------ bounds
MaxRuns == 2          \* processes started one after another
MaxPages == 2         \* the pagination label announces at most this many pages
MaxPerPage == 1       \* course cards a listing page shows

\* ------------------------------------------------- program constants
COURSES_PER_PAGE == 12
MAX_LOGIN_ATTEMPTS == 3
SAVE_FREQUENCY == 10

\* ------------------------------------------------------- value sets
Refs == {"A", "B"}                      \* course references (URLs)
MaxLong == 11                           \* length of a long discovery list
MaxHours == 5                           \* largest hours number in a duration text
MaxMins == 45                           \* largest minutes number in a duration text
\* A discovery list of distinct references, long enough for a periodic save.
LongSeq == <<"A", "B", "C", "D", "E", "F", "G", "H", "I", "J", "K", "L">>
AllRefs == {LongSeq[i] : i \in 1..Len(LongSeq)}

\* Exception classes a call can raise, as far as the handlers tell them apart:
\* "Exception" stands for every Exception subclass that is neither a
\* ValueError nor an AssertionError (TimeoutException, WebDriverException,
\* AttributeError, ...).
ErrKinds == {"ValueError", "AssertionError", "Exception"}
Outcomes == {"ok"} \cup ErrKinds

\* A duration text is a sequence of tokens: a number token has w = "num",
\* its integer part n and its first decimal digit d (-1 when there is none);
\* a word token has w = the word.
Num(n) == [w |-> "num", n |-> n, d |-> -1]
Word(s) == [w |-> s, n |-> 0, d |-> -1]
NA == <<Word("N/A")>>
Text_1h15 == <<Num(1), Word("hour"), Num(15), Word("mins")>>

\* What the detail page of a course is: its <title> (or none), whether the
\* "video-length" div is there, and the text of its "ud-heading-md" child
\* (<<>> when the child is missing).
PageFull == [title |-> "T", div |-> TRUE, time |-> Text_1h15]
PageBare == [title |-> "", div |-> TRUE, time |-> <<>>]
PageNoDiv == [title |-> "T", div |-> FALSE, time |-> <<>>]
Pages == {PageFull, PageBare, PageNoDiv}
NoPage == [title |-> "", div |-> FALSE, time |-> <<>>]

\* What the remote site does when the detail page of a course is asked for:
\* the navigation or the Overview click raises ("down"), the page has no
\* "Video:" element ("novideo"), the element is there but reading the page
\* source raises ("srcfail"), or the page is served ("page").  It is chosen
\* anew at every request.
RemoteStates == {[kind |-> k, page |-> NoPage] : k \in {"down", "novideo", "srcfail"}}
                  \cup {[kind |-> "page", page |-> p] : p \in Pages}

RECURSIVE SeqsUpTo(_, _)
SeqsUpTo(S, n) ==
  IF n = 0 THEN {<<>>}
  ELSE LET shorter == SeqsUpTo(S, n - 1)
       IN shorter \cup {Append(s, x) : s \in {t \in shorter : Len(t) = n - 1}, x \in S}

NoResp == [kind |-> "none", page |-> NoPage]

Range(s) == {s[i] : i \in 1..Len(s)}

\* ------------------------------------------------------------ state
VARIABLES
  \* disk
  cookies_file,          \* 0: no file; n > 0: the cookies of the n-th saved session
  course_urls_cache,     \* [exists, pages_count, urls]
  ignored_courses_file,  \* sequence of lines
  courses_xlsx_file,     \* [exists, rows]; a row is <<url, title, time cell>>
  cache_files,           \* [AllRefs -> [exists, page]]
  \* the running process
  pc, run, force, exit_code,
  current_attempt,
  pages_count, page, courses_list,
  existing_courses, ignored_courses, ws, processed_count, index, soup,
  \* history
  h

vars == <<cookies_file, course_urls_cache, ignored_courses_file, courses_xlsx_file,
          cache_files, pc, run, force, exit_code, current_attempt,
          pages_count, page, courses_list, existing_courses, ignored_courses, ws,
          processed_count, index, soup, h>>

disk == <<cookies_file, course_urls_cache, ignored_courses_file, courses_xlsx_file,
          cache_files>>
loginVars == <<current_attempt>>
discVars == <<pages_count, page, courses_list>>
extrVars == <<existing_courses, ignored_courses, ws, processed_count, index, soup>>


\* ------------------------------------------------- pure helpers
\* math.ceil(courses_count / COURSES_PER_PAGE)
PagesFor(courses_count) == (courses_count + COURSES_PER_PAGE - 1) \div COURSES_PER_PAGE

\* (variant: the cache file is never used)
CacheHit_never(cache, pc_now) == FALSE

\* (variant: the stored pages_count is not compared)
CacheHit_anyCache(cache, pc_now) == cache.exists

\* _get_all_course_urls: the stored list is used iff a cache file exists and
\* its pages_count equals the computed one.
CacheHit(cache, pc_now) == cache.exists /\ cache.pages_count = pc_now

\* (variant: the title column is read instead of the link column)
ExistingOf_titles(xlsx) ==
  IF xlsx.exists THEN {xlsx.rows[i][2] : i \in 1..Len(xlsx.rows)} ELSE {}

\* _get_existing_courses: the URLs in the first column of the data rows (the
\* row numbers the code keeps with them are never read).
ExistingOf(xlsx) == IF xlsx.exists THEN {xlsx.rows[i][1] : i \in 1..Len(xlsx.rows)} ELSE {}

\* (variant: the file is not read)
IgnoredOf_none(lines) == {}

\* _get_ignored_courses: the non-empty lines of the ignored file.
IgnoredOf(lines) == Range(lines)

\* _scrape_course_details: the workbook extraction appends to.
LoadWorkbook(xlsx) == IF xlsx.exists THEN xlsx.rows ELSE <<>>

\* (variant: off by one)
AttemptsRemain_offByOne(n) == n <= MAX_LOGIN_ATTEMPTS

\* _perform_login: the test of the while loop and of the retry branch.
AttemptsRemain(n) == n < MAX_LOGIN_ATTEMPTS

\* login: which exceptions the handler around the cookie probe catches.
ProbeCaught(e) == e \in {"ValueError", "AssertionError"}

\* (variant: the file is written before the driver is asked)
JarAfterSave_always(jar, saved, fresh) == fresh

\* _perform_login: sb.save_cookies writes the file when it returns; when the
\* driver raises, the file has not been opened.
JarAfterSave(jar, saved, fresh) == IF saved THEN fresh ELSE jar

\* (variant: the wait for the grid is wrapped in a handler that goes on)
GridWaitCaught_all(e) == TRUE

\* _get_all_course_urls: nothing in it catches an exception of the wait for
\* the course grid.
GridWaitCaught(e) == FALSE

\* Title and duration as _scrape_course_details takes them from the parsed page.
TitleOf(p) == IF p.title = "" THEN "N/A" ELSE p.title
TimeOf(p) == IF p.time = <<>> THEN NA ELSE p.time
TextCell(t) == [int |-> FALSE, n |-> 0, toks |-> t]
IntCell(n) == [int |-> TRUE, n |-> n, toks |-> <<>>]
RowOf(url, p) == <<url, TitleOf(p), TextCell(TimeOf(p))>>

\* (variant: the handler catches ValueError only)
ItemCaught_valueOnly(e) == e = "ValueError"

\* Per-item handler of the extraction loop: `except Exception` catches every
\* error kind of the model (KeyboardInterrupt is not one of them).
ItemCaught(e) == e \in ErrKinds

\* ---- _convert_to_minutes -------------------------------------------------
HourWords == {"hour", "hours"}
MinWords == {"min", "mins", "minutes"}

\* re.search: the leftmost number token directly followed by one of `words`
\* (0 when there is none).
FirstMatch(toks, words) ==
  LET hits == {i \in 1..(Len(toks) - 1) : toks[i].w = "num" /\ toks[i + 1].w \in words}
  IN IF hits = {} THEN 0 ELSE CHOOSE i \in hits : \A j \in hits : i <= j

\* (variant: the hours are added without the factor 60)
_convert_to_minutes_noFactor(toks) ==
  LET hi == FirstMatch(toks, HourWords)
      mi == FirstMatch(toks, MinWords)
  IN (IF hi = 0 THEN 0 ELSE toks[hi].n) + (IF mi = 0 THEN 0 ELSE toks[mi].n)

_convert_to_minutes(toks) ==
  IF toks = NA THEN 0
  ELSE LET hi == FirstMatch(toks, HourWords)
           mi == FirstMatch(toks, MinWords)
           hours == IF hi = 0 THEN 0
                    ELSE 60 * toks[hi].n + (IF toks[hi].d >= 0 THEN 6 * toks[hi].d ELSE 0)
           mins == IF mi = 0 THEN 0
                   ELSE IF toks[mi].d >= 0 THEN toks[mi].d ELSE toks[mi].n
       IN hours + mins

\* str(cell value) and `not value`
StrOf(cell) == IF cell.int THEN <<Num(cell.n)>> ELSE cell.toks
Falsy(cell) == IF cell.int THEN cell.n = 0 ELSE cell.toks = <<>>

\* format_xlsx, one row: rows without a time are left alone, every other
\* row gets the integer minutes of the text of its cell.
FormatRow(row) ==
  IF Falsy(row[3]) THEN row
  ELSE <<row[1], row[2], IntCell(_convert_to_minutes(StrOf(row[3])))>>

FormatRows(rows) == [i \in 1..Len(rows) |-> FormatRow(rows[i])]

\* format_xlsx, line 451-465: total_minutes and course_count after the rows.
RowMinutes(row) == IF Falsy(row[3]) THEN 0 ELSE _convert_to_minutes(StrOf(row[3]))
RECURSIVE TotalMinutes(_)
TotalMinutes(rows) ==
  IF rows = <<>> THEN 0 ELSE RowMinutes(Head(rows)) + TotalMinutes(Tail(rows))
CourseCount(rows) == Cardinality({i \in 1..Len(rows) : RowMinutes(rows[i]) > 0})

\* ------------------------------------------------------------ history
NoCache == [exists |-> FALSE, pages_count |-> 0, urls |-> <<>>]
NoXlsx == [exists |-> FALSE, rows |-> <<>>]

\* The part of the history that belongs to one process.
FreshRun(jar, cache, xlsx, ign) ==
  [jarAtLogin |-> jar, loginResult |-> "none", loginPath |-> "none",
   probe |-> "none", trail |-> <<>>, failed |-> 0, cooldowns |-> 0,
   cacheAtDisc |-> cache, discMode |-> "none", visited |-> <<>>, shown |-> <<>>,
   gridFailed |-> FALSE,
   xlsxAtStart |-> xlsx, ignoredAtStart |-> ign, began |-> FALSE, navigated |-> {},
   log |-> <<>>, extracted |-> FALSE, phases |-> <<>>,
   total_minutes |-> 0, course_count |-> 0, outcome |-> "none"]

\* The part that links an extraction to the one before it.  Of the current
\* one: its list, whether its loop has ended, what the remote served for each
\* reference (NoResp: not asked) and whether it served the same for the same
\* reference every time.  The same four of the extraction before it.
NoneServed == [r \in AllRefs |-> NoResp]
FreshLink ==
  [curList |-> <<>>, curDone |-> FALSE, served |-> NoneServed, stableCur |-> TRUE,
   prevList |-> <<>>, prevDone |-> FALSE, prevServed |-> NoneServed, prevStable |-> TRUE]

\* ------------------------------------------------------------ Init
Init ==
  /\ cookies_file \in {0, 1}
  /\ course_urls_cache = NoCache
  /\ ignored_courses_file = <<>>
  /\ courses_xlsx_file = NoXlsx
  /\ cache_files = [r \in AllRefs |-> [exists |-> FALSE, page |-> NoPage]]
  /\ pc = "idle" /\ run = 0 /\ force = FALSE /\ exit_code = -1
  /\ current_attempt = 0
  /\ pages_count = 0 /\ page = 0 /\ courses_list = <<>>
  /\ existing_courses = {} /\ ignored_courses = {} /\ ws = <<>>
  /\ processed_count = 0 /\ index = 0 /\ soup = NoPage
  /\ h = [r |-> FreshRun(cookies_file, NoCache, NoXlsx, {}), l |-> FreshLink]

\* The process ends: sys.exit(code), or main returns (code 0).
Ended(code, why, hr) ==
  /\ pc' = "idle"
  /\ exit_code' = code
  /\ h' = [h EXCEPT !.r = [hr EXCEPT !.outcome = why]]

\* ------------------------------------------------------------ main
\* A new process is started; its memory is fresh, the disk is what the last
\* one left.  FORCE_LOGIN is read from the environment.
StartRun ==
  /\ pc = "idle" /\ run < MaxRuns
  /\ run' = run + 1
  /\ pc' = "main"
  /\ exit_code' = -1
  /\ \E f \in BOOLEAN : force' = f
  /\ current_attempt' = 0
  /\ pages_count' = 0 /\ page' = 0 /\ courses_list' = <<>>
  /\ existing_courses' = {} /\ ignored_courses' = {} /\ ws' = <<>>
  /\ processed_count' = 0 /\ index' = 0 /\ soup' = NoPage
  /\ h' = [h EXCEPT !.r = FreshRun(cookies_file, course_urls_cache, courses_xlsx_file,
                                   Range(ignored_courses_file))]
  /\ UNCHANGED disk

\* main, up to the call of login: the configuration is read; with a field
\* missing the process exits 1.
MainConfig ==
  /\ pc = "main"
  /\ \E complete \in BOOLEAN :
       IF complete
       THEN /\ pc' = "l_open"
            /\ h' = [h EXCEPT !.r.phases = Append(@, "login")]
            /\ UNCHANGED exit_code
       ELSE Ended(1, "config", h.r)
  /\ UNCHANGED <<disk, run, force, loginVars, discVars, extrVars>>

\* ------------------------------------------------------------ login
\* An exception leaves login: main's `except Exception` reports it, exit 1.
LoginRaises(hr) ==
  Ended(1, "login_raised", [hr EXCEPT !.loginResult = "raised"])

\* An exception of the cookie probe is caught: _perform_login is called.
EnterPerformLogin(hr) ==
  /\ pc' = "a_begin"
  /\ current_attempt' = 0
  /\ h' = [h EXCEPT !.r = [hr EXCEPT !.loginPath = "interactive"]]
  /\ UNCHANGED exit_code

\* login returned True: main goes on to scrape_courses.
LoginTrue(hr) ==
  /\ pc' = "s_open"
  /\ h' = [h EXCEPT !.r = [hr EXCEPT !.loginResult = "true"]]
  /\ UNCHANGED exit_code

\* login, line 74-84: the login page is opened; with force set or without a
\* cookie file a ValueError is raised, else the cookie probe follows.
LoginOpen ==
  /\ pc = "l_open"
  /\ \E o \in Outcomes :
       IF o = "ok"
       THEN IF ~force /\ cookies_file # 0
            THEN /\ pc' = "l_probe"
                 /\ UNCHANGED <<exit_code, h, current_attempt>>
            ELSE EnterPerformLogin([h.r EXCEPT !.probe = "skipped"])
       ELSE LET hr == [h.r EXCEPT !.probe = IF ~force /\ cookies_file # 0
                                            THEN "failed" ELSE "skipped"]
            IN  IF ProbeCaught(o) THEN EnterPerformLogin(hr)
                ELSE LoginRaises(hr) /\ UNCHANGED current_attempt
  /\ UNCHANGED <<disk, run, force, discVars, extrVars>>

\* login, line 78-82: load_cookies, refresh, assert_text_visible.
CookieProbe ==
  /\ pc = "l_probe"
  /\ \E o \in Outcomes :
       IF o = "ok"
       THEN /\ LoginTrue([h.r EXCEPT !.loginPath = "probe", !.probe = "ok"])
            /\ UNCHANGED current_attempt
       ELSE IF ProbeCaught(o) THEN EnterPerformLogin([h.r EXCEPT !.probe = "failed"])
            ELSE LoginRaises([h.r EXCEPT !.probe = "failed"]) /\ UNCHANGED current_attempt
  /\ UNCHANGED <<disk, run, force, discVars, extrVars>>

\* One attempt fails at `step`: control is in the handler of line 147.
AttemptFails(step) ==
  /\ pc' = "a_failed"
  /\ h' = [h EXCEPT !.r.failed = @ + 1, !.r.trail = Append(@, step)]
  /\ UNCHANGED exit_code

\* A step of the attempt has been done.
Stepped(step) == [h EXCEPT !.r.trail = Append(@, step)]

\* _perform_login, line 114-119: loop test, then open, click and type the email.
\* (With the loop test false the function falls off its end and returns None,
\* which main treats as an unsuccessful login.)
AttemptBegin ==
  /\ pc = "a_begin"
  /\ IF AttemptsRemain(current_attempt)
     THEN /\ current_attempt' = current_attempt + 1
          /\ \E ok \in BOOLEAN :
               IF ok THEN /\ pc' = "a_pwless"
                          /\ h' = [h EXCEPT !.r.trail = <<>>]
                          /\ UNCHANGED exit_code
               ELSE /\ pc' = "a_failed"
                    /\ h' = [h EXCEPT !.r.failed = @ + 1, !.r.trail = <<"open_fail">>]
                    /\ UNCHANGED exit_code
     ELSE /\ Ended(1, "login_false", [h.r EXCEPT !.loginResult = "false"])
          /\ UNCHANGED current_attempt
  /\ UNCHANGED <<disk, run, force, discVars, extrVars>>

\* line 121-133: where control goes after the passwordless path: on to the
\* verification, or into its handler, the password-based path.
AfterPasswordless_noFallback(ok) == IF ok THEN "a_verify" ELSE "a_failed"
AfterPasswordless(ok) == IF ok THEN "a_verify" ELSE "a_pw"

\* line 121-131: the passwordless path; any exception leads to the fallback.
AttemptPasswordless ==
  /\ pc = "a_pwless"
  /\ \E ok \in BOOLEAN :
       /\ pc' = AfterPasswordless(ok)
       /\ h' = Stepped(IF ok THEN "pwless_ok" ELSE "pwless_fail")
  /\ UNCHANGED <<disk, run, force, exit_code, loginVars, discVars, extrVars>>

\* line 132-140: the password-based path, inside the handler of the first.
AttemptPassword ==
  /\ pc = "a_pw"
  /\ \E ok \in BOOLEAN :
       IF ok THEN pc' = "a_verify" /\ h' = Stepped("pw_ok") /\ UNCHANGED exit_code
       ELSE AttemptFails("pw_fail")
  /\ UNCHANGED <<disk, run, force, loginVars, discVars, extrVars>>

\* line 143: assert_text_visible(account_name)
AttemptVerify ==
  /\ pc = "a_verify"
  /\ \E ok \in BOOLEAN :
       IF ok THEN pc' = "a_save" /\ h' = Stepped("verify_ok") /\ UNCHANGED exit_code
       ELSE AttemptFails("verify_fail")
  /\ UNCHANGED <<disk, run, force, loginVars, discVars, extrVars>>

\* line 144-145: save_cookies, return True
AttemptSave ==
  /\ pc = "a_save"
  /\ \E saved \in BOOLEAN :
       /\ cookies_file' = JarAfterSave(cookies_file, saved, cookies_file + 1)
       /\ IF saved THEN LoginTrue(h.r) ELSE AttemptFails("save_fail")
  /\ UNCHANGED <<course_urls_cache, ignored_courses_file, courses_xlsx_file, cache_files,
                 run, force, loginVars, discVars, extrVars>>

\* line 147-160: the handler: wait and retry, or give up and return False
\* (main then exits 1).
AttemptFailed ==
  /\ pc = "a_failed"
  /\ IF AttemptsRemain(current_attempt)
     THEN /\ pc' = "a_begin"
          /\ h' = [h EXCEPT !.r.cooldowns = @ + 1, !.r.trail = <<>>]
          /\ UNCHANGED exit_code
     ELSE Ended(1, "login_false", [h.r EXCEPT !.loginResult = "false"])
  /\ UNCHANGED <<disk, run, force, loginVars, discVars, extrVars>>

\* ------------------------------------------------------------ discovery
\* The history of a run once login has returned and its locals are gone.
AfterLogin(hr) ==
  [hr EXCEPT !.failed = 0, !.cooldowns = 0, !.loginPath = "none",
             !.probe = "none", !.trail = <<>>, !.jarAtLogin = cookies_file]

\* scrape_courses, line 177-184: open the catalog, load the cookies, wait for
\* the pagination label, read the course count from it.  (The history of
\* the login call ends here; its locals are gone.)
ScrapeOpen ==
  /\ pc = "s_open"
  /\ \/ /\ Ended(1, "error", AfterLogin(h.r))
        /\ UNCHANGED pages_count
     \/ \E courses_count \in 0..(MaxPages * COURSES_PER_PAGE) :
          /\ pages_count' = PagesFor(courses_count)
          /\ pc' = "d_check"
          /\ UNCHANGED exit_code
          /\ h' = [h EXCEPT !.r = [AfterLogin(h.r) EXCEPT !.phases = Append(@, "discovery")]]
  /\ current_attempt' = 0
  /\ UNCHANGED <<disk, run, force, page, courses_list, extrVars>>

\* _get_all_course_urls, line 233-245: a valid cache entry is returned as it
\* is; otherwise the crawl starts with an empty list.
DiscCheck ==
  /\ pc = "d_check"
  /\ IF CacheHit(course_urls_cache, pages_count)
     THEN /\ courses_list' = course_urls_cache.urls
          /\ pc' = "x_load"
          /\ page' = page
          /\ h' = [h EXCEPT !.r.discMode = "hit", !.r.cacheAtDisc = course_urls_cache]
     ELSE /\ courses_list' = <<>>
          /\ page' = 1
          /\ pc' = "d_page"
          /\ h' = [h EXCEPT !.r.discMode = "crawl", !.r.cacheAtDisc = course_urls_cache]
  /\ UNCHANGED <<disk, run, force, exit_code, loginVars, pages_count, extrVars>>

\* line 247-260, one iteration: open listing page `page`, wait for the grid
\* (an exception of either leaves scrape_courses: main exits 1), append the
\* links of the cards the page shows.
DiscPage ==
  /\ pc = "d_page" /\ page <= pages_count
  /\ \/ IF GridWaitCaught("Exception")
        THEN /\ page' = page + 1
             /\ h' = [h EXCEPT !.r.gridFailed = TRUE]
             /\ UNCHANGED <<pc, exit_code, courses_list>>
        ELSE /\ Ended(1, "disc_failed", [h.r EXCEPT !.gridFailed = TRUE])
             /\ UNCHANGED <<page, courses_list>>
     \/ \E cards \in SeqsUpTo(Refs, MaxPerPage) :
          /\ courses_list' = courses_list \o cards
          /\ page' = page + 1
          /\ h' = [h EXCEPT !.r.visited = Append(@, page), !.r.shown = Append(@, cards)]
          /\ UNCHANGED <<pc, exit_code>>
  /\ UNCHANGED <<disk, run, force, loginVars, pages_count, extrVars>>

\* line 262-267: after the last page the cache entry is written and the list
\* returned.
DiscWrite ==
  /\ pc = "d_page" /\ page > pages_count
  /\ course_urls_cache' = [exists |-> TRUE, pages_count |-> pages_count, urls |-> courses_list]
  /\ pc' = "x_load"
  /\ page' = 0
  /\ UNCHANGED <<cookies_file, ignored_courses_file, courses_xlsx_file, cache_files,
                 run, force, exit_code, loginVars, pages_count, courses_list, extrVars, h>>

\* ------------------------------------------------------------ extraction
\* scrape_courses line 192-195 and _scrape_course_details line 344-355: the
\* recorded and the ignored references are read, the workbook is loaded.
\* (The history of the enumeration ends here.)
ExtractLoad ==
  /\ pc = "x_load"
  /\ existing_courses' = ExistingOf(courses_xlsx_file)
  /\ ignored_courses' = IgnoredOf(ignored_courses_file)
  /\ ws' = LoadWorkbook(courses_xlsx_file)
  /\ processed_count' = 0
  /\ index' = 1
  /\ pc' = "x_item"
  /\ h' = [h EXCEPT !.r.visited = <<>>, !.r.shown = <<>>, !.r.discMode = "none",
                    !.r.cacheAtDisc = course_urls_cache, !.r.began = TRUE,
                    !.r.phases = Append(@, "extraction"),
                    !.l = [curList |-> courses_list, curDone |-> FALSE,
                           served |-> NoneServed, stableCur |-> TRUE,
                           prevList |-> h.l.curList, prevDone |-> h.l.curDone,
                           prevServed |-> h.l.served, prevStable |-> h.l.stableCur]]
  /\ UNCHANGED <<disk, run, force, exit_code, loginVars, discVars, soup>>

url == courses_list[index]
InLoop == pc = "x_item" /\ index <= Len(courses_list)

Logged(what) == [h EXCEPT !.r.log = Append(@, what)]

\* line 358-360
ItemExisting ==
  /\ InLoop /\ url \in existing_courses
  /\ index' = index + 1
  /\ h' = Logged("existing")
  /\ UNCHANGED <<disk, pc, run, force, exit_code, loginVars, discVars,
                 existing_courses, ignored_courses, ws, processed_count, soup>>

\* line 362-364
ItemIgnored ==
  /\ InLoop /\ url \notin existing_courses /\ url \in ignored_courses
  /\ index' = index + 1
  /\ h' = Logged("ignored")
  /\ UNCHANGED <<disk, pc, run, force, exit_code, loginVars, discVars,
                 existing_courses, ignored_courses, ws, processed_count, soup>>

\* line 369: cache_file.exists()
CacheExists_never(c) == FALSE
CacheExists(c) == c.exists

\* line 369-373: the raw page is in the cache and is parsed from there.
ItemFromCache ==
  /\ InLoop /\ url \notin existing_courses /\ url \notin ignored_courses
  /\ CacheExists(cache_files[url])
  /\ soup' = cache_files[url].page
  /\ pc' = "x_parse"
  /\ UNCHANGED <<disk, run, force, exit_code, loginVars, discVars,
                 existing_courses, ignored_courses, ws, processed_count, index, h>>

\* line 375-396: the page is opened and the Overview tab clicked (an
\* exception ends the item); then the probe for the "Video:" element: found,
\* the page source is cached and parsed; not found, the reference is appended
\* to the ignored file and the item ends.  The handler of the probe (line
\* 387) also takes an exception of the steps after it (line 383-386).
ItemFetch ==
  /\ InLoop /\ url \notin existing_courses /\ url \notin ignored_courses
  /\ ~CacheExists(cache_files[url])
  /\ \E resp \in RemoteStates :
     LET went == [h EXCEPT !.r.navigated = @ \cup {url},
                           !.l.served[url] = resp,
                           !.l.stableCur = @ /\ h.l.served[url] \in {NoResp, resp}]
     IN CASE resp.kind = "down" ->
               /\ IF ItemCaught("Exception")
                  THEN /\ index' = index + 1
                       /\ h' = [went EXCEPT !.r.log = Append(@, "error")]
                       /\ UNCHANGED <<pc, exit_code, courses_xlsx_file>>
                  ELSE /\ courses_xlsx_file' = [exists |-> TRUE, rows |-> ws]
                       /\ Ended(1, "error", went.r)
                       /\ UNCHANGED index
               /\ UNCHANGED <<ignored_courses_file, cache_files, soup>>
          [] resp.kind = "novideo" ->
               /\ ignored_courses_file' = Append(ignored_courses_file, url)
               /\ index' = index + 1
               /\ h' = [went EXCEPT !.r.log = Append(@, "nonvideo")]
               /\ UNCHANGED <<pc, exit_code, courses_xlsx_file, cache_files, soup>>
          [] resp.kind = "srcfail" ->
               /\ ignored_courses_file' = Append(ignored_courses_file, url)
               /\ index' = index + 1
               /\ h' = [went EXCEPT !.r.log = Append(@, "ignored_err")]
               /\ UNCHANGED <<pc, exit_code, courses_xlsx_file, cache_files, soup>>
          [] resp.kind = "page" ->
               /\ cache_files' = [cache_files EXCEPT ![url] =
                                    [exists |-> TRUE, page |-> resp.page]]
               /\ soup' = resp.page
               /\ pc' = "x_parse"
               /\ h' = went
               /\ UNCHANGED <<exit_code, courses_xlsx_file, ignored_courses_file, index>>
  /\ UNCHANGED <<cookies_file, course_urls_cache, run, force, loginVars, discVars,
                 existing_courses, ignored_courses, ws, processed_count>>

\* line 425: the workbook is saved when the count of rows appended in this
\* run is a multiple of SAVE_FREQUENCY.
SaveDue_never(n) == FALSE
SaveDue(n) == n % SAVE_FREQUENCY = 0

\* line 398-429: title and duration are taken from the parsed page (a page
\* without the "video-length" div raises AttributeError), the row is appended
\* to the workbook, which is saved every SAVE_FREQUENCY rows.
ItemExtract ==
  /\ pc = "x_parse"
  /\ IF soup.div
     THEN /\ ws' = Append(ws, RowOf(url, soup))
          /\ processed_count' = processed_count + 1
          /\ courses_xlsx_file' = IF SaveDue(processed_count')
                                  THEN [exists |-> TRUE, rows |-> ws']
                                  ELSE courses_xlsx_file
          /\ index' = index + 1
          /\ pc' = "x_item"
          /\ h' = Logged("new")
          /\ UNCHANGED exit_code
     ELSE IF ItemCaught("Exception")
          THEN /\ index' = index + 1
               /\ pc' = "x_item"
               /\ h' = Logged("error")
               /\ UNCHANGED <<exit_code, ws, processed_count, courses_xlsx_file>>
          ELSE /\ courses_xlsx_file' = [exists |-> TRUE, rows |-> ws]
               /\ Ended(1, "error", h.r)
               /\ UNCHANGED <<index, ws, processed_count>>
  /\ UNCHANGED <<cookies_file, course_urls_cache, ignored_courses_file, cache_files,
                 run, force, loginVars, discVars, existing_courses,
                 ignored_courses, soup>>

\* line 433-439, and the return to main: the loop is over, the workbook is
\* saved and closed.
LoopEnd ==
  /\ pc = "x_item" /\ index > Len(courses_list)
  /\ courses_xlsx_file' = [exists |-> TRUE, rows |-> ws]
  /\ pc' = "fmt"
  /\ h' = [h EXCEPT !.r.extracted = TRUE, !.l.curDone = TRUE]
  /\ UNCHANGED <<cookies_file, course_urls_cache, ignored_courses_file, cache_files,
                 run, force, exit_code, loginVars, discVars, extrVars>>

\* format_xlsx (line 441-483), then main returns: exit code 0.
FormatXlsx ==
  /\ pc = "fmt"
  /\ courses_xlsx_file' = IF courses_xlsx_file.exists
                          THEN [exists |-> TRUE, rows |-> FormatRows(courses_xlsx_file.rows)]
                          ELSE courses_xlsx_file
  /\ Ended(0, "done",
           [h.r EXCEPT !.phases = Append(@, "normalization"),
                       !.total_minutes = TotalMinutes(courses_xlsx_file.rows),
                       !.course_count = CourseCount(courses_xlsx_file.rows)])
  /\ UNCHANGED <<cookies_file, course_urls_cache, ignored_courses_file, cache_files,
                 run, force, loginVars, discVars, extrVars>>

\* ------------------------------------------------------------ environment
\* KeyboardInterrupt: it passes every `except Exception`; inside the try of
\* the extraction loop the finally clause saves the workbook first.  main's
\* handler exits 0, but names `scraper`: before that is bound the handler
\* itself fails and the exit code is 1.
FinallySaves_none(p) == FALSE
\* The positions inside the try of line 356, whose finally clause saves.
FinallySaves(p) == p \in {"x_item", "x_parse"}

Interrupt ==
  /\ pc # "idle"
  /\ courses_xlsx_file' = IF FinallySaves(pc)
                          THEN [exists |-> TRUE, rows |-> ws]
                          ELSE courses_xlsx_file
  /\ \E code \in (IF pc = "main" THEN {0, 1} ELSE {0}) : Ended(code, "interrupted", h.r)
  /\ UNCHANGED <<cookies_file, course_urls_cache, ignored_courses_file, cache_files,
                 run, force, loginVars, discVars, extrVars>>

Next ==
  \/ StartRun \/ MainConfig
  \/ LoginOpen \/ CookieProbe
  \/ AttemptBegin \/ AttemptPasswordless \/ AttemptPassword \/ AttemptVerify
  \/ AttemptSave \/ AttemptFailed
  \/ ScrapeOpen \/ DiscCheck \/ DiscPage \/ DiscWrite
  \/ ExtractLoad \/ ItemExisting \/ ItemIgnored \/ ItemFromCache \/ ItemFetch
  \/ ItemExtract \/ LoopEnd \/ FormatXlsx
  \/ Interrupt

Spec == Init /\ [][Next]_vars

\* ------------------------------------------------------------ a long list
\* The extraction of a long discovery list: login and discovery are over, the
\* list names distinct references; the raw page of each but "C" is in the
\* cache (left by an earlier run), "A" may be in the Detail Store and "B" in
\* the ignored file.
InitLong ==
  /\ cookies_file = 1
  /\ \E n \in 0..MaxLong :
       /\ courses_list = SubSeq(LongSeq, 1, n)
       /\ course_urls_cache = [exists |-> TRUE, pages_count |-> PagesFor(n),
                               urls |-> courses_list]
       /\ pages_count = PagesFor(n)
  /\ ignored_courses_file \in {<<>>, <<"B">>}
  /\ courses_xlsx_file \in {NoXlsx, [exists |-> TRUE, rows |-> <<<<"A", "T", IntCell(75)>>>>]}
  /\ \E p \in {PageFull, PageBare} :
       cache_files = [r \in AllRefs |-> IF r = "C" THEN [exists |-> FALSE, page |-> NoPage]
                                                   ELSE [exists |-> TRUE, page |-> p]]
  /\ pc = "x_load" /\ run = 1 /\ force = FALSE /\ exit_code = -1
  /\ current_attempt = 0 /\ page = 0
  /\ existing_courses = {} /\ ignored_courses = {} /\ ws = <<>>
  /\ processed_count = 0 /\ index = 0 /\ soup = NoPage
  /\ h = [r |-> [FreshRun(cookies_file, course_urls_cache, courses_xlsx_file,
                          Range(ignored_courses_file))
                   EXCEPT !.loginResult = "true", !.phases = <<"login", "discovery">>],
          l |-> FreshLink]

NextLong ==
  \/ ExtractLoad \/ ItemExisting \/ ItemIgnored \/ ItemFromCache \/ ItemFetch
  \/ ItemExtract \/ LoopEnd \/ FormatXlsx
  \/ Interrupt

SpecLong == InitLong /\ [][NextLong]_vars

\* ------------------------------------------------------------ normalization
\* Duration texts "h hour(s) m min(s)", either part optional (-1: absent).
DurText(hh, hw, mm, mw) ==
  (IF hh < 0 THEN <<>> ELSE <<Num(hh), Word(hw)>>)
    \o (IF mm < 0 THEN <<>> ELSE <<Num(mm), Word(mw)>>)
DurTexts ==
  {DurText(hh, hw, mm, mw) : hh \in -1..MaxHours, hw \in {"hour", "hours"},
                             mm \in -1..MaxMins, mw \in {"min", "mins"}}

\* Texts and titles of pages that are not courses with a video length.
Text_questions == <<Num(50), Word("questions")>>
TitleQuestions == "Practice questions"

\* What a course-time cell of the Detail Store can hold: the text written by
\* the extraction, or the integer written by an earlier normalization.
CellsIn ==
  {TextCell(t) : t \in DurTexts \cup {NA, Text_questions}}
    \cup {IntCell(0), IntCell(75)}

\* The normalization of a Detail Store of one or two rows: extraction is
\* over and has saved the workbook.
InitFmt ==
  /\ \E title \in {"T", "N/A", TitleQuestions}, cell \in CellsIn :
       \E more \in {<<>>, <<<<"B", "T", TextCell(Text_1h15)>>>>,
                     <<<<"B", TitleQuestions, TextCell(Text_1h15)>>>>} :
         ws = <<<<"A", title, cell>>>> \o more
  /\ courses_xlsx_file = [exists |-> TRUE, rows |-> ws]
  /\ courses_list = [i \in 1..Len(ws) |-> ws[i][1]]
  /\ course_urls_cache = [exists |-> TRUE, pages_count |-> 1, urls |-> courses_list]
  /\ cookies_file = 1
  /\ ignored_courses_file = <<>>
  /\ cache_files = [r \in AllRefs |-> [exists |-> FALSE, page |-> NoPage]]
  /\ pc = "fmt" /\ run = 1 /\ force = FALSE /\ exit_code = -1
  /\ current_attempt = 0 /\ pages_count = 1 /\ page = 0
  /\ existing_courses = ExistingOf(courses_xlsx_file) /\ ignored_courses = {}
  /\ processed_count = 0 /\ index = Len(ws) + 1 /\ soup = NoPage
  /\ h = [r |-> [FreshRun(cookies_file, course_urls_cache, courses_xlsx_file, {})
                   EXCEPT !.loginResult = "true", !.began = TRUE, !.extracted = TRUE,
                          !.log = [i \in 1..Len(ws) |-> "existing"],
                          !.phases = <<"login", "discovery", "extraction">>],
          l |-> [FreshLink EXCEPT !.curList = courses_list, !.curDone = TRUE]]

NextFmt == FormatXlsx \/ Interrupt

SpecFmt == InitFmt /\ [][NextFmt]_vars

\* ======================================================================
\* Properties
\* ======================================================================
Extracting == pc \in {"x_item", "x_parse", "fmt"}
LoadedRows == LoadWorkbook(h.r.xlsxAtStart)
\* The rows this extraction has appended to the workbook so far.
Appended == SubSeq(ws, Len(LoadedRows) + 1, Len(ws))
Urls(rows) == [i \in 1..Len(rows) |-> rows[i][1]]

\* The remote served, for every reference, the same thing at every request of
\* the previous and of the current extraction.
RemoteUnchanged ==
  /\ h.l.prevStable /\ h.l.stableCur
  /\ \A r \in AllRefs : h.l.served[r] = NoResp \/ h.l.prevServed[r] \in {NoResp, h.l.served[r]}

SuccessiveSameInput ==
  /\ Extracting
  /\ h.l.prevDone
  /\ h.l.prevList = courses_list
  /\ RemoteUnchanged

\* C1 -- Idempotence of extraction: when an extraction follows a completed
\* extraction of the same discovery list and the remote content has not
\* changed, it appends no row to the Detail Store (the workbook stays as
\* loaded and the file as it was), and every reference recorded in the
\* store is in existing_courses (already_done).
C1_Idempotent ==
  SuccessiveSameInput =>
    /\ ws = LoadedRows
    /\ courses_xlsx_file.rows = LoadedRows
    /\ {LoadedRows[i][1] : i \in 1..Len(LoadedRows)} \subseteq existing_courses

\* The second extraction is over and has skipped a recorded reference.
C1_Witness ==
  /\ SuccessiveSameInput /\ pc = "fmt"
  /\ \E i \in 1..Len(h.r.log) : h.r.log[i] = "existing"
  /\ \E i \in 1..Len(h.r.log) : h.r.log[i] = "error"

\* C2 -- the Detail Store holds at most one row per Course Reference.
C2_OneRowPerReference ==
  \A i, j \in 1..Len(courses_xlsx_file.rows) :
    courses_xlsx_file.rows[i][1] = courses_xlsx_file.rows[j][1] => i = j

RECURSIVE NewUrls(_, _)
\* The references of the items the log marks "new", in order.
NewUrls(log, list) ==
  IF log = <<>> THEN <<>>
  ELSE LET n == Len(log)
           before == NewUrls(SubSeq(log, 1, n - 1), list)
       IN IF log[n] = "new" THEN Append(before, list[n]) ELSE before

\* C3 -- Partial-failure isolation: an error while one item is processed
\* does not end the loop: the loop leaves only at the end of the list (or by
\* a user interrupt), every position of the list is then processed, and the
\* Detail Store file holds the rows it held before followed by one row for
\* each successfully processed item, in order, and none for an item that
\* raised.
C3_FailureIsolated ==
  /\ Extracting =>
       /\ Len(h.r.log) = index - 1
       /\ Urls(Appended) = NewUrls(h.r.log, courses_list)
       /\ SubSeq(ws, 1, Len(LoadedRows)) = LoadedRows
  /\ pc = "fmt" =>
       /\ Len(h.r.log) = Len(courses_list)
       /\ courses_xlsx_file = [exists |-> TRUE, rows |-> ws]
  /\ (pc = "idle" /\ h.r.began) => h.r.outcome \in {"done", "interrupted"}

\* Item k raised, item k+1 was processed and got its row.
C3_Witness ==
  /\ pc = "fmt"
  /\ \E k \in 1..(Len(h.r.log) - 1) : h.r.log[k] = "error" /\ h.r.log[k + 1] = "new"
  /\ Len(courses_xlsx_file.rows) = 1

\* The rows of a row sequence from position n + 1 on.
After(rows, n) == SubSeq(rows, n + 1, Len(rows))

IgnoredBefore == h.r.ignoredAtStart

C4_Skipped ==
  /\ IgnoredBefore \subseteq Range(ignored_courses_file)
  /\ IgnoredBefore \cap h.r.navigated = {}
  /\ \A i \in 1..Len(h.r.log) :
       courses_list[i] \in IgnoredBefore => h.r.log[i] \in {"existing", "ignored"}
  /\ Range(Urls(After(ws, Len(LoadedRows)))) \cap IgnoredBefore = {}
  /\ Range(Urls(After(courses_xlsx_file.rows, Len(LoadedRows)))) \cap IgnoredBefore = {}

\* C4 -- Classification stability: a reference that is in the Ignored Set
\* when a run starts is skipped at every position of that run's discovery
\* list, its page is not opened or probed, no row for it is added to the
\* Detail Store, and no step ever takes a reference out of the Ignored Set.
C4_ClassificationStable ==
  /\ []C4_Skipped
  /\ [][Range(ignored_courses_file) \subseteq Range(ignored_courses_file')]_vars

\* A later run got an ignored reference in its list and has stepped over it.
C4_Witness ==
  /\ pc = "fmt" /\ run = 2
  /\ \E i \in 1..Len(h.r.log) :
       /\ h.r.log[i] = "ignored"
       /\ courses_list[i] \in IgnoredBefore

\* The cache entry the enumeration found is valid for the computed page count.
HitCond == h.r.cacheAtDisc.exists /\ h.r.cacheAtDisc.pages_count = pages_count

\* C5 -- Discovery cache hit: with a cache entry whose pages_count equals the
\* computed one, no listing page is opened, the enumeration returns the
\* stored URL list as it is, and the cache entry is unchanged.
C5_CacheHit ==
  /\ pc = "d_page" => ~HitCond
  /\ (pc = "x_load" /\ HitCond) =>
       /\ courses_list = h.r.cacheAtDisc.urls
       /\ h.r.visited = <<>>
       /\ course_urls_cache = h.r.cacheAtDisc

\* A stored, non-empty list has been returned.
C5_Witness ==
  /\ pc = "x_load" /\ HitCond
  /\ Len(courses_list) = 2

RECURSIVE Flatten(_)
Flatten(ss) == IF ss = <<>> THEN <<>> ELSE Head(ss) \o Flatten(Tail(ss))
UpTo(n) == [i \in 1..n |-> i]

\* C6 -- Discovery cache invalidation: without a valid cache entry the
\* listing pages 1..pages_count are opened once each in ascending order, the
\* list returned is what they showed, page after page, the cache entry stays
\* as it was until the last page is done and is then {pages_count, urls} of
\* this crawl.
C6_CacheInvalidated ==
  /\ pc = "d_page" =>
       /\ course_urls_cache = h.r.cacheAtDisc
       /\ h.r.visited = UpTo(page - 1)
       /\ courses_list = Flatten(h.r.shown)
  /\ (pc = "x_load" /\ ~HitCond) =>
       /\ h.r.visited = UpTo(pages_count)
       /\ courses_list = Flatten(h.r.shown)
       /\ course_urls_cache =
            [exists |-> TRUE, pages_count |-> pages_count, urls |-> courses_list]

\* A stale entry (other page count, other list) has been replaced after a
\* crawl of two pages.
C6_Witness ==
  /\ pc = "x_load" /\ ~HitCond
  /\ h.r.cacheAtDisc.exists
  /\ pages_count = 2 /\ Len(courses_list) = 2
  /\ h.r.cacheAtDisc.urls # <<>>
  /\ courses_list[1] # courses_list[2]

\* C7 -- Discovery failure: when the wait for the course grid fails on a
\* listing page the run is over at once with exit code 1: no list is
\* returned, the Discovery Cache is what it was before the crawl, nothing is
\* extracted and the Detail Store is not written.
C7_DiscoveryFailure ==
  h.r.gridFailed =>
    /\ pc = "idle" /\ exit_code = 1 /\ h.r.outcome = "disc_failed"
    /\ course_urls_cache = h.r.cacheAtDisc
    /\ ~h.r.began /\ h.r.log = <<>> /\ h.r.navigated = {} /\ ws = <<>>
    /\ courses_xlsx_file = h.r.xlsxAtStart
    /\ Range(ignored_courses_file) = h.r.ignoredAtStart

\* The second page failed, after the first gave a card, with a stored entry.
C7_Witness ==
  /\ h.r.gridFailed
  /\ Len(h.r.visited) = 1 /\ courses_list # <<>>
  /\ h.r.cacheAtDisc.exists

\* C8 -- login always ends by returning a boolean: no exception of a session
\* call leaves it.
C8_LoginReturnsBoolean == h.r.loginResult # "raised"

Interactive == h.r.loginPath = "interactive"

\* C9 -- Interactive login is a bounded retry loop: never more than
\* MAX_LOGIN_ATTEMPTS attempts; every attempt before the current one has
\* failed (the first success ends the loop, with True); False is returned
\* exactly when MAX_LOGIN_ATTEMPTS attempts have failed; and the cooldown has
\* been waited once for every failed attempt but the last of
\* MAX_LOGIN_ATTEMPTS.
C9_BoundedRetry ==
  /\ current_attempt <= MAX_LOGIN_ATTEMPTS
  /\ pc \in {"a_pwless", "a_pw", "a_verify", "a_save"} => h.r.failed = current_attempt - 1
  /\ pc \in {"a_begin", "a_failed"} => h.r.failed = current_attempt
  /\ (Interactive /\ h.r.loginResult = "true") => h.r.failed = current_attempt - 1
  /\ h.r.loginResult = "false" => h.r.failed = MAX_LOGIN_ATTEMPTS
  /\ (h.r.failed = MAX_LOGIN_ATTEMPTS /\ pc # "a_failed" /\ h.r.outcome # "interrupted")
       => h.r.loginResult = "false"
  /\ h.r.outcome # "interrupted" =>
       h.r.cooldowns = h.r.failed - (IF pc = "a_failed" \/ h.r.loginResult = "false"
                                       THEN 1 ELSE 0)

\* The third attempt succeeded after two failures and two cooldowns.
C9_Witness ==
  /\ pc = "s_open" /\ Interactive /\ h.r.loginResult = "true"
  /\ current_attempt = MAX_LOGIN_ATTEMPTS
  /\ h.r.failed = 2 /\ h.r.cooldowns = 2

\* C10 -- The Cookie Jar changes only in the step of an interactive attempt
\* that follows its successful display-name assertion and ends login with
\* True; after a successful cookie probe, after a failed attempt and after a
\* login that failed it is what it was when login started.
C10_JarOnlyOnSuccess ==
  /\ [](cookies_file # h.r.jarAtLogin =>
          /\ Interactive /\ h.r.loginResult = "true"
          /\ cookies_file = h.r.jarAtLogin + 1)
  /\ [][cookies_file' # cookies_file =>
          pc = "a_save" /\ pc' = "s_open" /\ h'.r.loginResult = "true"]_vars

\* An existing jar survived a failed attempt and was then overwritten.
C10_Witness ==
  /\ pc = "s_open" /\ Interactive
  /\ h.r.failed >= 1
  /\ h.r.jarAtLogin = 1 /\ cookies_file = 2

\* The history of the login call is that of this process's login.
LoginHistory ==
  \/ pc \in {"l_probe", "a_begin", "a_pwless", "a_pw", "a_verify", "a_save", "a_failed",
             "s_open"}
  \/ pc = "idle" /\ h.r.outcome \in {"login_false", "login_raised"}

\* C11 -- Cookie probe transitions: a probe that succeeds makes login return
\* True with no interactive attempt; a probe that fails (assertion, or an
\* error while the cookies or the page are loaded) leads to the interactive
\* loop; with force set or without a Cookie Jar the jar is not loaded and the
\* interactive loop is entered.
C11_ProbeTransitions ==
  /\ h.r.probe = "ok" =>
       h.r.loginResult = "true" /\ current_attempt = 0 /\ ~Interactive
  /\ h.r.probe = "failed" => Interactive
  /\ (LoginHistory /\ (force \/ h.r.jarAtLogin = 0)) =>
       Interactive /\ h.r.probe = "skipped"

Count(x, seq) == Cardinality({i \in 1..Len(seq) : seq[i] = x})
LoggedAs(r, what) == \E i \in 1..Len(h.r.log) : courses_list[i] = r /\ h.r.log[i] = what

\* The duration a course-time cell stands for, in minutes.
MinutesOf(cell) == IF cell.int THEN cell.n ELSE _convert_to_minutes(cell.toks)

\* The rows present before the run still stand for the durations they had.
OldRowsKept ==
  \A i \in 1..Len(LoadedRows) :
    /\ i <= Len(courses_xlsx_file.rows)
    /\ MinutesOf(courses_xlsx_file.rows[i][3]) = MinutesOf(LoadedRows[i][3])

\* C12 -- Run accounting: when a run has completed, the Detail Store file
\* holds, after the rows it held before the run, exactly one row for each
\* reference that was extracted and none for any other reference; the
\* Ignored Set file holds exactly one entry for each reference, not ignored
\* before, whose duration probe timed out; and the rows present before the
\* run still carry the course-time values they had.
C12_RunAccounting ==
  (pc = "idle" /\ h.r.outcome = "done") =>
    /\ OldRowsKept
    /\ \A r \in Refs :
         Count(r, Urls(After(courses_xlsx_file.rows, Len(LoadedRows))))
           = IF LoggedAs(r, "new") THEN 1 ELSE 0
    /\ \A r \in Refs \ h.r.ignoredAtStart :
         Count(r, ignored_courses_file) = IF LoggedAs(r, "nonvideo") THEN 1 ELSE 0

\* C13 -- Exit behaviour and phase order: the process exits non-zero when
\* the configuration is incomplete, before any session, and when login
\* returns False, before any discovery; it exits zero on a user interruption
\* at any point of the run; and otherwise it exits zero only after login,
\* discovery, extraction and normalization have run in that order.
C13_ExitAndPhases ==
  pc = "idle" =>
    /\ h.r.outcome = "config" => exit_code > 0 /\ h.r.phases = <<>>
    /\ h.r.outcome = "login_false" => exit_code > 0 /\ h.r.phases = <<"login">>
    /\ h.r.outcome = "interrupted" => exit_code = 0
    /\ (exit_code = 0 /\ h.r.outcome # "interrupted") =>
         /\ h.r.outcome = "done"
         /\ h.r.phases = <<"login", "discovery", "extraction", "normalization">>

\* C14 -- A failed item is recorded nowhere: a reference whose items in
\* this run all ended in an error (of the navigation, of a missing element,
\* of a later step) and that was in neither store when the run started is
\* in neither the Detail Store nor the Ignored Set, in memory or on disk, so
\* that the next run processes it again; the references this run has added
\* to the Ignored Set are those whose duration probe found no indicator.
C14_FailureNotRecorded ==
  h.r.began =>
    /\ \A r \in Refs :
         (/\ LoggedAs(r, "error") \/ LoggedAs(r, "ignored_err")
          /\ ~LoggedAs(r, "new") /\ ~LoggedAs(r, "nonvideo")
          /\ r \notin ExistingOf(h.r.xlsxAtStart) \cup h.r.ignoredAtStart)
         => /\ r \notin Range(Urls(ws)) \cup Range(Urls(courses_xlsx_file.rows))
            /\ r \notin Range(ignored_courses_file)
    /\ \A r \in Range(ignored_courses_file) \ h.r.ignoredAtStart : LoggedAs(r, "nonvideo")

\* The rows appended to the workbook and not yet written to the file.
Unflushed == Len(ws) - Len(courses_xlsx_file.rows)

\* C15 -- Checkpointing: while the loop runs the file holds a prefix of the
\* workbook, and the rows appended in this run and not yet flushed are the
\* count of appended rows modulo SAVE_FREQUENCY, fewer than SAVE_FREQUENCY;
\* when the loop has ended, at the end of the list or by an exception that
\* leaves it, the file holds every row of the workbook.
C15_Checkpointing ==
  /\ pc \in {"x_item", "x_parse"} =>
       /\ Unflushed >= 0
       /\ courses_xlsx_file.rows = SubSeq(ws, 1, Len(courses_xlsx_file.rows))
       /\ processed_count = Len(Appended)
       /\ Unflushed = processed_count % SAVE_FREQUENCY
       /\ Unflushed < SAVE_FREQUENCY
  /\ (pc = "fmt" \/ (pc = "idle" /\ h.r.began /\ h.r.outcome # "done")) =>
       courses_xlsx_file = [exists |-> TRUE, rows |-> ws]

\* A periodic save has happened in the middle of the list, and a row has
\* been appended since.
C15_Witness ==
  /\ pc = "x_item"
  /\ processed_count = SAVE_FREQUENCY + 1
  /\ Unflushed = 1
  /\ Len(courses_xlsx_file.rows) = Len(LoadedRows) + SAVE_FREQUENCY

\* A step in which the user interrupts the extraction loop.
InterruptedInLoop ==
  /\ pc \in {"x_item", "x_parse"}
  /\ pc' = "idle" /\ h'.r.outcome = "interrupted"

\* C16 (as stated) -- after a user interruption during extraction nothing is
\* written to the Detail Store file: it holds what the last flush before the
\* interruption wrote.
C16_NoWriteAfterInterrupt ==
  [][InterruptedInLoop => courses_xlsx_file' = courses_xlsx_file]_vars

\* C16 -- A user interruption during extraction ends the process with exit
\* code 0 after one write to the Detail Store file, that of the finally
\* clause: the file then holds every row of the workbook, those appended
\* since the last flush included, not normalized; no other file is written.
C16_InterruptFlushes ==
  [][InterruptedInLoop =>
       /\ courses_xlsx_file' = [exists |-> TRUE, rows |-> ws]
       /\ exit_code' = 0
       /\ UNCHANGED <<cookies_file, course_urls_cache, ignored_courses_file, cache_files, ws>>]_vars

\* The extraction was interrupted with a row appended and not yet flushed;
\* the file holds it.
C16_Witness ==
  /\ pc = "idle" /\ h.r.outcome = "interrupted" /\ h.r.began /\ ~h.r.extracted
  /\ Len(Appended) > 0
  /\ exit_code = 0
  /\ courses_xlsx_file = [exists |-> TRUE, rows |-> ws]
  /\ courses_xlsx_file # h.r.xlsxAtStart

\* A row of the Detail Store contains "questions" in one of its columns.
HasQuestions(row) ==
  \/ row[2] = TitleQuestions
  \/ ~row[3].int /\ \E i \in 1..Len(row[3].toks) : row[3].toks[i].w = "questions"

\* Total and count of the positive durations of the rows without "questions".
RECURSIVE WithoutQuestions(_)
WithoutQuestions(rows) ==
  IF rows = <<>> THEN <<>>
  ELSE IF HasQuestions(Head(rows)) THEN WithoutQuestions(Tail(rows))
       ELSE <<Head(rows)>> \o WithoutQuestions(Tail(rows))

\* C17 -- Non-video filter in normalization: when the pass has run, every
\* row that contains "questions" in a column is as it was before the pass,
\* and the total and the count behind the average are those of the other
\* rows.  (ws is the store as the pass found it.)
C17_QuestionsFiltered ==
  (pc = "idle" /\ h.r.outcome = "done") =>
    /\ \A i \in 1..Len(ws) :
         HasQuestions(ws[i]) => courses_xlsx_file.rows[i] = ws[i]
    /\ h.r.total_minutes = TotalMinutes(WithoutQuestions(ws))
    /\ h.r.course_count = CourseCount(WithoutQuestions(ws))

\* The hours h and the minutes m of a duration text "h hour(s) m min(s)",
\* read off its first and its last two tokens; an absent part counts 0.
HoursPart(toks) ==
  IF Len(toks) >= 2 /\ toks[2].w \in {"hour", "hours"} THEN toks[1].n ELSE 0
MinsPart(toks) ==
  IF Len(toks) >= 2 /\ toks[Len(toks)].w \in {"min", "mins"} THEN toks[Len(toks) - 1].n ELSE 0

\* C18 -- to_minutes: a duration text with an optional whole number of hours
\* h and an optional number of minutes m converts to 60*h + m, an absent part
\* counting 0, and "N/A" and the empty text convert to 0; the normalization
\* pass writes that number into the cell of every row whose text is not
\* empty.  (ws is the store as the pass found it.)
C18_ToMinutes ==
  \A i \in 1..Len(ws) :
    LET cell == ws[i][3]
        done == pc = "idle" /\ h.r.outcome = "done"
    IN  ~cell.int =>
          /\ cell.toks \in DurTexts =>
               LET expected == 60 * HoursPart(cell.toks) + MinsPart(cell.toks)
               IN  /\ _convert_to_minutes(cell.toks) = expected
                   /\ (done /\ cell.toks # <<>>) =>
                        courses_xlsx_file.rows[i][3] = IntCell(expected)
          /\ cell.toks \in {NA, <<>>} => _convert_to_minutes(cell.toks) = 0
          /\ (done /\ cell.toks = NA) => courses_xlsx_file.rows[i][3] = IntCell(0)

\* The pass has turned "5 hours 30 mins" into 330.
C18_Witness ==
  /\ pc = "idle" /\ h.r.outcome = "done"
  /\ ws[1][3] = TextCell(DurText(5, "hours", 30, "mins"))
  /\ courses_xlsx_file.rows[1][3] = IntCell(330)

\* C19 -- Missing title or duration: when the page text of a course has been
\* obtained, the item does not fail whatever is missing from the page: a row
\* is appended whose title is the page's, or "N/A" without a title element,
\* and whose course time is the page's, or "N/A" without a duration element
\* (the "video-length" div or its "ud-heading-md" child).
C19_MissingGivesNA ==
  [][(pc = "x_parse" /\ pc' # "idle") =>
       /\ ws' = Append(ws, <<url,
                             IF soup.title = "" THEN "N/A" ELSE soup.title,
                             TextCell(IF ~soup.div \/ soup.time = <<>> THEN NA ELSE soup.time)>>)
       /\ h'.r.log = Append(h.r.log, "new")]_vars

\* The steps of an attempt that end it in failure.
FailSteps == {"open_fail", "pw_fail", "verify_fail", "save_fail"}

\* C20 -- Login fallback: in one attempt the passwordless path is the first
\* path tried; its failure is followed, in the same attempt, by the
\* password-based path and its success is not; the display-name assertion
\* comes after the path that completed, and only an attempt whose assertion
\* held succeeds; a failure of the password-based path or of the assertion
\* ends the attempt, and no step is done twice in one attempt.
C20_LoginFallback ==
  LET tr == h.r.trail
      n == Len(tr)
  IN  /\ pc = "a_pwless" => tr = <<>>
      /\ pc = "a_pw" => tr = <<"pwless_fail">>
      /\ pc = "a_verify" => tr \in {<<"pwless_ok">>, <<"pwless_fail", "pw_ok">>}
      /\ pc = "a_save" => tr \in {<<"pwless_ok", "verify_ok">>,
                                  <<"pwless_fail", "pw_ok", "verify_ok">>}
      /\ (n >= 1 /\ tr[1] # "open_fail") => tr[1] \in {"pwless_ok", "pwless_fail"}
      /\ tr = <<"pwless_fail">> => pc \in {"a_pw", "idle"}
      /\ (n >= 2 /\ tr[1] = "pwless_fail") => tr[2] \in {"pw_ok", "pw_fail"}
      /\ (n >= 2 /\ tr[1] = "pwless_ok") => tr[2] \in {"verify_ok", "verify_fail"}
      /\ (Interactive /\ h.r.loginResult = "true") =>
           tr \in {<<"pwless_ok", "verify_ok">>, <<"pwless_fail", "pw_ok", "verify_ok">>}
      /\ \A i \in 1..n :
           tr[i] \in FailSteps => i = n /\ pc \in {"a_failed", "a_begin", "idle"}
      /\ \A i, j \in 1..n : tr[i] = tr[j] => i = j

\* The passwordless path failed, the password-based path and the assertion
\* succeeded in the same attempt, and login has returned True.
C20_Witness ==
  /\ pc = "s_open" /\ h.r.loginResult = "true"
  /\ h.r.trail = <<"pwless_fail", "pw_ok", "verify_ok">>

\* C21 -- Raw Page Cache: an entry of the cache changes only in the step in
\* which the duration probe of its reference has found the indicator, and
\* becomes the page then served; an entry that exists holds a page that
\* passed the probe; and an item whose reference is neither recorded nor
\* ignored and has an entry takes its page from the entry, without a
\* navigation or a probe -- so that a page fetched by a run that ended before
\* its row was in the file is not fetched again.
C21_RawPageCache ==
  /\ [](\A r \in AllRefs : cache_files[r].exists => cache_files[r].page \in Pages)
  /\ [][\A r \in AllRefs :
          /\ cache_files'[r] # cache_files[r] =>
               /\ pc = "x_item" /\ index <= Len(courses_list) /\ r = courses_list[index]
               /\ r \notin existing_courses \cup ignored_courses
               /\ h'.l.served[r].kind = "page"
               /\ cache_files'[r] = [exists |-> TRUE, page |-> h'.l.served[r].page]
          /\ (cache_files[r].exists /\ r \in h'.r.navigated) => r \in h.r.navigated]_vars
  /\ [][(/\ InLoop /\ pc' # "idle"
         /\ url \notin existing_courses \cup ignored_courses
         /\ cache_files[url].exists)
        => /\ soup' = cache_files[url].page /\ pc' = "x_parse"
           /\ h'.r.navigated = h.r.navigated /\ h'.l.served = h.l.served
           /\ cache_files' = cache_files]_vars

\* A second run parses, from the cache and without a navigation, the page of
\* a reference that the first run fetched and did not record.
C21_Witness ==
  /\ run = 2 /\ pc = "x_parse"
  /\ cache_files[url].exists /\ soup = cache_files[url].page
  /\ h.r.navigated = {}
  /\ url \notin ExistingOf(h.r.xlsxAtStart) \cup h.r.ignoredAtStart

\* C22 -- Normalization is stable across runs: when a run has completed,
\* the pass that ended it has left every row that already held integer
\* minutes when the run started with that same integer (so that the pass of
\* this run after the pass of the run before gives what one pass gave).
C22_NormalizationStable ==
  (pc = "idle" /\ h.r.outcome = "done") =>
    \A i \in 1..Len(LoadedRows) :
      LoadedRows[i][3].int =>
        /\ i <= Len(courses_xlsx_file.rows)
        /\ courses_xlsx_file.rows[i][3] = LoadedRows[i][3]

=============================================================================
